---- MODULE Spec2Model ----
(***************************************************************************)
(* Model of image_analysis.py: the History Store (HistoryManager), the     *)
(* Model Client (GeminiClient) and the UI Shell (App) with its worker      *)
(* threads and polling queue.                                              *)
(*                                                                         *)
(* Texts are sequences of tokens (Str("x") is the one-token text), so that *)
(* concatenation, strip and slicing are computed as the code computes      *)
(* them.  Python's None is the sentinel None.                              *)
(***************************************************************************)
EXTENDS Integers, Sequences, FiniteSets, TLC

VARIABLES
    file,       \* the file chat_history.json on disk
    clock,      \* the wall clock read by datetime.datetime.now()
    calls,      \* HistoryManager calls made by a direct caller, oldest first
    gc,         \* the GeminiClient: self.chat and the sessions it has started
    wire,       \* the requests sent to the model service, oldest first
    gcalls,     \* GeminiClient calls made by a direct caller, oldest first
    api_key,    \* App.api_key is set
    client_ready,        \* App.client is not None
    init_pc,             \* the init_client_bg thread: "none", "running", "done"
    msg_queue,           \* App.msg_queue, oldest first
    current_chat_id,     \* App.current_chat_id
    current_image_paths, \* App.current_image_paths
    pil_images,          \* App.pil_images
    chat_log_data,       \* App.chat_log_data
    btn_send,            \* state of the Send button
    btn_start,           \* state of the Analyze button
    status_bar,          \* text of the status bar
    chat_display,        \* the transcript widget, a line per insert
    hist_list,           \* rows of the history listbox
    hist_sel,            \* hist_list.curselection(): <<>> or <<row>>, rows from 0
    after_refresh,       \* the load_history_ui calls scheduled by root.after(0, ...)
                         \* that have not run yet (see Schedule)
    workers,             \* the worker threads dispatched so far, oldest first
    polls,               \* the check_queue calls that are running or are scheduled
                         \* by root.after(100, ...)
    removed,             \* the identifiers Delete Selected and Clear All have removed
                         \* from the file so far (kept to state what became of them)
    events               \* number of inputs the user has made so far

storeVars == <<file, clock, calls>>

clientVars == <<gc, wire, gcalls>>

widgetVars == <<btn_send, btn_start, status_bar, chat_display, hist_list, hist_sel>>

appVars ==
    <<api_key, client_ready, init_pc, msg_queue, current_chat_id,
      current_image_paths, pil_images, chat_log_data, btn_send, btn_start,
      status_bar, chat_display, hist_list, hist_sel, after_refresh, workers, polls,
      removed, events>>

vars == <<file, clock, calls, gc, wire, gcalls, appVars>>

----------------------------------------------------------------------------
(* Bounds *)

MaxCalls == 2

----------------------------------------------------------------------------
(* Python values *)

None == "None"

Str(s) == <<s>>

EmptyDict == [k \in {} |-> None]

DictSet(data, k, v) ==
    [x \in (DOMAIN data) \cup {k} |-> IF x = k THEN v ELSE data[x]]

DictDel(data, k) == [x \in (DOMAIN data) \ {k} |-> data[x]]

\* datetime.datetime.now().isoformat(): later instants give greater strings
IsoFormat(n) == "t" \o ToString(n)

----------------------------------------------------------------------------
(* The history file and the json conversions *)

HISTORY_FILE == "chat_history.json"

\* kind of the bytes of an existing file:
\*   "object"      text that parses to a JSON object (doc holds it)
\*   "array"       text that parses to a JSON array (of values that are
\*                 not conversation identifiers)
\*   "scalar"      text that parses to a JSON number, null, true or false
\*   "garbage"     decodable text that is not JSON (also the empty file)
\*   "undecodable" bytes that are not text in the locale's encoding
FileKinds == {"object", "array", "scalar", "garbage", "undecodable"}

AbsentFile == [exists |-> FALSE, readable |-> TRUE, kind |-> "garbage", doc |-> EmptyDict]

ObjectFile(doc) == [exists |-> TRUE, readable |-> TRUE, kind |-> "object", doc |-> doc]

\* json.dump writes an object member for each dict item in insertion order;
\* a None key is written as "null".
DumpKey(k) == IF k = None THEN "null" ELSE k

\* json.dump(data, f) followed by what json.load makes of the text: data
\* was loaded (string keys) and then had at most one key set, so a None key
\* is the last member written and wins over an earlier "null" member.
json_dump(data) ==
    [k \in {DumpKey(x) : x \in DOMAIN data} |->
        IF k = "null" /\ None \in DOMAIN data THEN data[None] ELSE data[k]]

\* open(HISTORY_FILE, "w") and json.dump: the file is created or truncated,
\* its permissions stay as they were.
OpenWrite(f, data) ==
    [exists |-> TRUE,
     readable |-> IF f.exists THEN f.readable ELSE TRUE,
     kind |-> "object",
     doc |-> json_dump(data)]

Returned(isdict, val) == [exc |-> "", isdict |-> isdict, val |-> val]

Raised(e) == [exc |-> e, isdict |-> FALSE, val |-> EmptyDict]

\* HistoryManager.load
HM_load(f) ==
    IF ~f.exists THEN Returned(TRUE, EmptyDict)
    ELSE IF ~f.readable THEN Returned(TRUE, EmptyDict)            \* IOError caught
    ELSE IF f.kind = "garbage" THEN Returned(TRUE, EmptyDict)     \* JSONDecodeError caught
    ELSE IF f.kind = "undecodable" THEN Raised("UnicodeDecodeError")
    ELSE IF f.kind \in {"array", "scalar"} THEN Returned(FALSE, EmptyDict) \* the list, the number
    ELSE Returned(TRUE, f.doc)

\* the entry built without its last message
Entry_drops_last(title, image_paths, history_log, now) ==
    [title |-> title,
     images |-> image_paths,
     messages |-> SubSeq(history_log, 1, Len(history_log) - 1),
     updated_at |-> IsoFormat(now)]

Entry(title, image_paths, history_log, now) ==
    [title |-> title,
     images |-> image_paths,
     messages |-> history_log,
     updated_at |-> IsoFormat(now)]

Outcome(e, f) == [exc |-> e, file |-> f]

\* the write of a document that holds the new entry alone
HM_save_write_fresh(f, loaded, chat_id, entry) ==
    IF loaded.exc # "" THEN Outcome(loaded.exc, f)
    ELSE IF ~loaded.isdict THEN Outcome("TypeError", f)
    ELSE Outcome("", OpenWrite(f, DictSet(EmptyDict, chat_id, entry)))

\* HistoryManager.save, the part after load: data[chat_id] = entry and the
\* rewrite of the file.
HM_save_write(f, loaded, chat_id, entry) ==
    IF loaded.exc # "" THEN Outcome(loaded.exc, f)
    ELSE IF ~loaded.isdict THEN Outcome("TypeError", f)
    ELSE Outcome("", OpenWrite(f, DictSet(loaded.val, chat_id, entry)))

\* HistoryManager.save
HM_save(f, chat_id, title, image_paths, history_log, now) ==
    HM_save_write(f, HM_load(f), chat_id, Entry(title, image_paths, history_log, now))

\* delete_entry that rewrites the file with an empty document
HM_delete_entry_truncates(f, chat_id) ==
    LET loaded == HM_load(f) IN
    IF loaded.exc # "" THEN Outcome(loaded.exc, f)
    ELSE IF ~loaded.isdict
         THEN IF f.kind = "scalar" THEN Outcome("TypeError", f)
              ELSE Outcome("", f)
    ELSE IF chat_id \in DOMAIN loaded.val
         THEN Outcome("", OpenWrite(f, EmptyDict))
         ELSE Outcome("", f)

\* HistoryManager.delete_entry
HM_delete_entry(f, chat_id) ==
    LET loaded == HM_load(f) IN
    IF loaded.exc # "" THEN Outcome(loaded.exc, f)
    ELSE IF ~loaded.isdict
         THEN IF f.kind = "scalar" THEN Outcome("TypeError", f)  \* chat_id in 42
              ELSE Outcome("", f)                                \* chat_id in [...] is False
    ELSE IF chat_id \in DOMAIN loaded.val
         THEN Outcome("", OpenWrite(f, DictDel(loaded.val, chat_id)))
         ELSE Outcome("", f)

\* clear_all with the existence test inverted
HM_clear_all_inverted(f) ==
    IF ~f.exists THEN Outcome("", OpenWrite(f, EmptyDict)) ELSE Outcome("", f)

\* HistoryManager.clear_all
HM_clear_all(f) ==
    IF f.exists THEN Outcome("", OpenWrite(f, EmptyDict)) ELSE Outcome("", f)

----------------------------------------------------------------------------
(* The Model Client *)

\* a GeminiClient after __init__: self.chat is None (0), no session yet.
\* sessions[sid] is the history of the session object start_chat returned.
NewClient == [chat |-> 0, sessions |-> <<>>]

ReplyText == Str("r")

\* self.chat = self.model.start_chat(history=[])
start_chat(g) ==
    [chat |-> Len(g.sessions) + 1, sessions |-> Append(g.sessions, <<>>)]

\* what session sid puts on the wire for content: its history and the content
Request(g, sid, content) ==
    [sid |-> sid, history |-> g.sessions[sid], content |-> content]

\* the session records the turn when the service has replied
ChatReply(g, sid, content, reply) ==
    [g EXCEPT !.sessions[sid] =
        @ \o <<[role |-> "user", parts |-> content], [role |-> "model", parts |-> reply]>>]

Result(g, w, e, ret) == [gc |-> g, wire |-> w, exc |-> e, ret |-> ret]

\* session.send_message(content): ok says whether the service replies or
\* the call raises
chat_send_message(g, w, sid, content, ok) ==
    IF ok THEN Result(ChatReply(g, sid, content, ReplyText),
                      Append(w, Request(g, sid, content)), "", ReplyText)
    ELSE Result(g, Append(w, Request(g, sid, content)), "APIError", <<>>)

\* GeminiClient.start_new_session
GC_start_new_session(g, w, images, prompt_text, ok) ==
    LET g1 == start_chat(g)
    IN chat_send_message(g1, w, g1.chat, <<prompt_text>> \o images, ok)

\* send_message that opens a session when there is none
GC_send_message_autostart(g, w, text, ok) ==
    IF g.chat = 0
    THEN chat_send_message(start_chat(g), w, start_chat(g).chat, text, ok)
    ELSE chat_send_message(g, w, g.chat, text, ok)

\* GeminiClient.send_message
GC_send_message(g, w, text, ok) ==
    IF g.chat = 0 THEN Result(g, w, "RuntimeError", <<>>)
    ELSE chat_send_message(g, w, g.chat, text, ok)

RECURSIVE Texts(_)
\* the texts of a message log, concatenated in order
Texts(log) == IF log = <<>> THEN <<>> ELSE Head(log).text \o Texts(Tail(log))

\* resume_session that replays the texts of history_data before the images
GC_resume_session_replays(g, w, history_data, images, ok) ==
    LET g1 == start_chat(g)
    IN IF images # <<>>
       THEN LET r == chat_send_message(g1, w, g1.chat,
                        <<"System: Context restoration.">> \o Texts(history_data) \o images, ok)
            IN Result(r.gc, r.wire, r.exc, <<>>)
       ELSE Result(g1, w, "", <<>>)

\* GeminiClient.resume_session (it returns None)
GC_resume_session(g, w, history_data, images, ok) ==
    LET g1 == start_chat(g)
    IN IF images # <<>>
       THEN LET r == chat_send_message(g1, w, g1.chat,
                        <<"System: Context restoration.">> \o images, ok)
            IN Result(r.gc, r.wire, r.exc, <<>>)
       ELSE Result(g1, w, "", <<>>)

----------------------------------------------------------------------------
(* No App object: the state of the App's fields when only the History      *)
(* Store or the Model Client is exercised.                                 *)

NoApp ==
    /\ api_key = FALSE
    /\ client_ready = FALSE
    /\ init_pc = "none"
    /\ msg_queue = <<>>
    /\ current_chat_id = None
    /\ current_image_paths = <<>>
    /\ pil_images = <<>>
    /\ chat_log_data = <<>>
    /\ btn_send = "normal"
    /\ btn_start = "disabled"
    /\ status_bar = ""
    /\ chat_display = <<>>
    /\ hist_list = <<>>
    /\ hist_sel = <<>>
    /\ after_refresh = {}
    /\ workers = <<>>
    /\ polls = 0
    /\ removed = {}
    /\ events = 0

----------------------------------------------------------------------------
(* The History Store called directly: each call is recorded with the file  *)
(* before and after it and with what it returned or raised.                *)

UserMsg == [role |-> "user", text |-> Str("q")]

ModelMsg == [role |-> "model", text |-> Str("r")]

ArgIds == {IsoFormat(0), IsoFormat(1), None}

ArgTitles == {Str("Chat"), <<"r", "...">>}

ArgImages == {<<>>, <<"a.png", "b.png">>}

ArgLogs == {<<>>, <<UserMsg, ModelMsg>>}

OldEntry == Entry(Str("Chat"), <<"b.png">>, <<UserMsg>>, 0)

OtherEntry == Entry(<<"r", "...">>, <<>>, <<ModelMsg, UserMsg>>, 0)

StoreDocs ==
    { EmptyDict,
      [k \in {IsoFormat(0)} |-> OldEntry],
      [k \in {IsoFormat(0), IsoFormat(1)} |-> IF k = IsoFormat(0) THEN OldEntry ELSE OtherEntry],
      [k \in {"null", IsoFormat(1)} |-> IF k = "null" THEN OldEntry ELSE OtherEntry] }

StoreFiles ==
    {AbsentFile}
    \cup {ObjectFile(d) : d \in StoreDocs}
    \cup {[exists |-> TRUE, readable |-> TRUE, kind |-> k, doc |-> EmptyDict] :
             k \in FileKinds \ {"object"}}
    \cup {[exists |-> TRUE, readable |-> FALSE, kind |-> "object",
           doc |-> [k \in {IsoFormat(0)} |-> OldEntry]]}

NoArgs == [chat_id |-> None, title |-> <<>>, images |-> <<>>, log |-> <<>>, now |-> 0]

Call(op, args, pre, post, ret) ==
    [op |-> op, args |-> args, pre |-> pre, post |-> post, ret |-> ret]

InitStore ==
    /\ file \in StoreFiles
    /\ clock = 0
    /\ calls = <<>>
    /\ gc = NewClient
    /\ wire = <<>>
    /\ gcalls = <<>>
    /\ NoApp

CallLoad ==
    /\ Len(calls) < MaxCalls
    /\ calls' = Append(calls, Call("load", NoArgs, file, file, HM_load(file)))
    /\ UNCHANGED <<file, clock, clientVars, appVars>>

CallSave ==
    /\ Len(calls) < MaxCalls
    /\ \E chat_id \in ArgIds, title \in ArgTitles, images \in ArgImages, log \in ArgLogs :
         LET out == HM_save(file, chat_id, title, images, log, clock)
             args == [chat_id |-> chat_id, title |-> title, images |-> images,
                      log |-> log, now |-> clock]
         IN /\ file' = out.file
            /\ calls' = Append(calls, Call("save", args, file, out.file, Raised(out.exc)))
    /\ clock' = clock + 1
    /\ UNCHANGED <<clientVars, appVars>>

CallDeleteEntry ==
    /\ Len(calls) < MaxCalls
    /\ \E chat_id \in ArgIds \cup {"null"} :
         LET out == HM_delete_entry(file, chat_id)
         IN /\ file' = out.file
            /\ calls' = Append(calls, Call("delete_entry", [NoArgs EXCEPT !.chat_id = chat_id],
                                           file, out.file, Raised(out.exc)))
    /\ UNCHANGED <<clock, clientVars, appVars>>

CallClearAll ==
    /\ Len(calls) < MaxCalls
    /\ LET out == HM_clear_all(file)
       IN /\ file' = out.file
          /\ calls' = Append(calls, Call("clear_all", NoArgs, file, out.file, Raised(out.exc)))
    /\ UNCHANGED <<clock, clientVars, appVars>>

NextStore == CallLoad \/ CallSave \/ CallDeleteEntry \/ CallClearAll

SpecStore == InitStore /\ [][NextStore]_vars

----------------------------------------------------------------------------
(* Properties of the History Store *)

\* the file is absent or holds a JSON object that can be read
ReadableDocument(f) == ~f.exists \/ (f.readable /\ f.kind = "object")

\* load neither raises nor returns something that is not a mapping
LoadsMapping(f) == HM_load(f).exc = "" /\ HM_load(f).isdict

\* an identifier of the data model: a timestamp string (None is not one)
IsIdentifier(chat_id) == chat_id # None

\* C1: save(id, title, images, log) followed at once by load(), from an
\* absent file or a valid mapping: load returns a mapping whose entry for
\* id has exactly that title, image-path sequence and message log.
C1_SaveLoadRoundTrip ==
    \A i \in 1..(Len(calls) - 1) :
        ( /\ calls[i].op = "save"
          /\ calls[i + 1].op = "load"
          /\ ReadableDocument(calls[i].pre)
          /\ IsIdentifier(calls[i].args.chat_id) )
        => LET a == calls[i].args
               r == calls[i + 1].ret
           IN /\ calls[i].ret.exc = ""
              /\ r.exc = ""
              /\ r.isdict
              /\ a.chat_id \in DOMAIN r.val
              /\ r.val[a.chat_id].title = a.title
              /\ r.val[a.chat_id].images = a.images
              /\ r.val[a.chat_id].messages = a.log

C1_Witness ==
    /\ Len(calls) = 2
    /\ calls[1].op = "save"
    /\ calls[2].op = "load"
    /\ calls[1].pre.exists
    /\ ReadableDocument(calls[1].pre)
    /\ calls[1].args.chat_id \in DOMAIN calls[1].pre.doc
    /\ Len(calls[1].args.log) = 2
    /\ Len(calls[1].args.images) = 2
    /\ calls[2].ret.val[calls[1].args.chat_id].messages = calls[1].args.log

\* C2: delete_entry(id) leaves the document (and the file) unchanged when
\* id is not a key; when id is a key exactly that key goes and every other
\* identifier keeps its record.
C2_DeleteExactlyOne ==
    \A i \in 1..Len(calls) :
        (calls[i].op = "delete_entry" /\ LoadsMapping(calls[i].pre))
        => LET id == calls[i].args.chat_id
               before == HM_load(calls[i].pre).val
               after == HM_load(calls[i].post)
           IN /\ calls[i].ret.exc = ""
              /\ id \notin DOMAIN before => calls[i].post = calls[i].pre
              /\ id \in DOMAIN before =>
                    /\ after.exc = "" /\ after.isdict
                    /\ DOMAIN after.val = (DOMAIN before) \ {id}
                    /\ \A k \in (DOMAIN before) \ {id} : after.val[k] = before[k]

C2_Witness ==
    /\ Len(calls) >= 1
    /\ calls[1].op = "delete_entry"
    /\ calls[1].args.chat_id \in DOMAIN HM_load(calls[1].pre).val
    /\ Cardinality(DOMAIN HM_load(calls[1].pre).val) = 2
    /\ Cardinality(DOMAIN HM_load(calls[1].post).val) = 1

\* C3 (as claimed): load() returns an empty mapping and does not raise
\* whenever the file is absent or is anything but a parseable JSON object.
C3_LoadCorruptGivesEmpty ==
    \A i \in 1..Len(calls) :
        ( /\ calls[i].op = "load"
          /\ ~(calls[i].pre.exists /\ calls[i].pre.readable /\ calls[i].pre.kind = "object") )
        => calls[i].ret = Returned(TRUE, EmptyDict)

\* C4: clear_all() followed by load(), from any file state: load returns
\* an empty mapping.
C4_ClearThenLoadEmpty ==
    \A i \in 1..(Len(calls) - 1) :
        (calls[i].op = "clear_all" /\ calls[i + 1].op = "load")
        => /\ calls[i].ret.exc = ""
           /\ calls[i + 1].ret = Returned(TRUE, EmptyDict)

C4_Witness ==
    /\ Len(calls) = 2
    /\ calls[1].op = "clear_all"
    /\ calls[2].op = "load"
    /\ HM_load(calls[1].pre).isdict
    /\ Cardinality(DOMAIN HM_load(calls[1].pre).val) = 2
    /\ calls[2].ret.val = EmptyDict

\* C5: save(id, ...) touches only the record under id: every other
\* identifier of the document before the save is still there with the same
\* record, and no identifier other than id is added.
C5_SaveFrame ==
    \A i \in 1..Len(calls) :
        ( /\ calls[i].op = "save"
          /\ IsIdentifier(calls[i].args.chat_id)
          /\ LoadsMapping(calls[i].pre) )
        => LET id == calls[i].args.chat_id
               before == HM_load(calls[i].pre).val
               after == HM_load(calls[i].post)
           IN /\ calls[i].ret.exc = ""
              /\ after.exc = "" /\ after.isdict
              /\ \A k \in (DOMAIN before) \ {id} :
                    k \in DOMAIN after.val /\ after.val[k] = before[k]
              /\ DOMAIN after.val \subseteq (DOMAIN before) \cup {id}

C5_Witness ==
    /\ Len(calls) >= 1
    /\ calls[1].op = "save"
    /\ IsIdentifier(calls[1].args.chat_id)
    /\ Cardinality(DOMAIN HM_load(calls[1].pre).val) = 2
    /\ calls[1].args.chat_id \in DOMAIN HM_load(calls[1].pre).val
    /\ HM_load(calls[1].post).val[calls[1].args.chat_id] # HM_load(calls[1].pre).val[calls[1].args.chat_id]

----------------------------------------------------------------------------
(* The Model Client called directly: each call is recorded with the client *)
(* and the wire before and after it.                                       *)

MaxClientCalls == 3

ArgImageSets == {<<>>, <<"a.png">>, <<"b.png", "a.png">>}

\* history_data: None (the empty sequence here) or a message log
ArgHistories == {<<>>, <<UserMsg, ModelMsg>>}

GCall(op, args, pre, preWire, res) ==
    [op |-> op, args |-> args, pre |-> pre, preWire |-> preWire,
     post |-> res.gc, postWire |-> res.wire, exc |-> res.exc, ret |-> res.ret]

NoGArgs == [images |-> <<>>, text |-> <<>>, history_data |-> <<>>]

InitClient ==
    /\ file = AbsentFile
    /\ clock = 0
    /\ calls = <<>>
    /\ gc = NewClient
    /\ wire = <<>>
    /\ gcalls = <<>>
    /\ NoApp

Did(op, args, res) ==
    /\ gc' = res.gc
    /\ wire' = res.wire
    /\ gcalls' = Append(gcalls, GCall(op, args, gc, wire, res))
    /\ UNCHANGED <<storeVars, appVars>>

CallStartNewSession ==
    /\ Len(gcalls) < MaxClientCalls
    /\ \E images \in ArgImageSets, ok \in BOOLEAN :
         Did("start_new_session", [NoGArgs EXCEPT !.images = images],
             GC_start_new_session(gc, wire, images, "Analyze these images.", ok))

CallSendMessage ==
    /\ Len(gcalls) < MaxClientCalls
    /\ \E ok \in BOOLEAN :
         Did("send_message", [NoGArgs EXCEPT !.text = Str("q")],
             GC_send_message(gc, wire, Str("q"), ok))

CallResumeSession ==
    /\ Len(gcalls) < MaxClientCalls
    /\ \E history_data \in ArgHistories, images \in ArgImageSets, ok \in BOOLEAN :
         Did("resume_session", [NoGArgs EXCEPT !.images = images, !.history_data = history_data],
             GC_resume_session(gc, wire, history_data, images, ok))

NextClient == CallStartNewSession \/ CallSendMessage \/ CallResumeSession

SpecClient == InitClient /\ [][NextClient]_vars

----------------------------------------------------------------------------
(* Properties of the Model Client *)

NewRequests(c) == SubSeq(c.postWire, Len(c.preWire) + 1, Len(c.postWire))

Range(seq) == {seq[i] : i \in 1..Len(seq)}

\* the tokens of the texts the user sent and the model replied in calls
\* before call i, and of the texts of the history_data given to call i
PriorTexts(i) ==
    Range(Texts(gcalls[i].args.history_data))
    \cup UNION {Range(gcalls[j].args.text) \cup Range(gcalls[j].ret) : j \in 1..(i - 1)}

\* C9: resume_session starts a fresh session with empty history and sends
\* at most one message, the context message with exactly the given images
\* in order; nothing when there are no images; never a text of the
\* conversation's earlier turns, whatever history_data is.
C9_ResumeReplaysImagesOnly ==
    \A i \in 1..Len(gcalls) :
        gcalls[i].op = "resume_session" =>
            LET c == gcalls[i]
                sid == c.post.chat
                new == NewRequests(c)
            IN /\ sid = Len(c.pre.sessions) + 1
               /\ Len(c.post.sessions) = sid
               /\ c.preWire = SubSeq(c.postWire, 1, Len(c.preWire))
               /\ c.args.images = <<>> => (new = <<>> /\ c.post.sessions[sid] = <<>>)
               /\ c.args.images # <<>> =>
                    new = << [sid |-> sid, history |-> <<>>,
                              content |-> <<"System: Context restoration.">> \o c.args.images] >>
               /\ \A k \in 1..Len(new) :
                    /\ new[k].history = <<>>
                    /\ Range(new[k].content) \cap PriorTexts(i) = {}

C9_Witness ==
    /\ Len(gcalls) = 3
    /\ gcalls[1].op = "start_new_session" /\ gcalls[1].exc = ""
    /\ gcalls[2].op = "send_message" /\ gcalls[2].exc = ""
    /\ gcalls[3].op = "resume_session" /\ gcalls[3].exc = ""
    /\ Len(gcalls[3].args.images) = 2
    /\ gcalls[3].args.history_data # <<>>
    /\ Len(gcalls[3].postWire) = 3

SessionStartedBefore(i) ==
    \E j \in 1..(i - 1) : gcalls[j].op \in {"start_new_session", "resume_session"}

\* C10: send_message raises and sends nothing when neither
\* start_new_session nor resume_session has run on the client; once one has
\* run it forwards the text to the current session and returns its reply.
C10_SendNeedsSession ==
    \A i \in 1..Len(gcalls) :
        gcalls[i].op = "send_message" =>
            LET c == gcalls[i]
                new == NewRequests(c)
            IN /\ ~SessionStartedBefore(i) =>
                    (c.exc = "RuntimeError" /\ c.postWire = c.preWire /\ c.post = c.pre)
               /\ SessionStartedBefore(i) =>
                    /\ c.pre.chat # 0
                    /\ Len(new) = 1
                    /\ new[1].sid = c.pre.chat
                    /\ new[1].content = c.args.text
                    /\ c.exc # "RuntimeError"
                    /\ c.exc = "" => c.ret = ReplyText

C10_Witness ==
    /\ Len(gcalls) = 3
    /\ gcalls[1].op = "send_message" /\ gcalls[1].exc = "RuntimeError"
    /\ gcalls[2].op = "start_new_session" /\ gcalls[2].exc = "APIError"
    /\ gcalls[3].op = "send_message" /\ gcalls[3].exc = "" /\ gcalls[3].ret = ReplyText

----------------------------------------------------------------------------
(* Model selection: GeminiClient.find_latest_flash_model called directly   *)
(* on what genai.list_models() gives.  A model name is a sequence of       *)
(* characters.                                                             *)

MaxListed == 2

FALLBACK_MODEL == "gemini-1.5-flash-latest"

\* ord(c) of the characters that occur in the names
Ord(c) ==
    CASE c = "-" -> 45 [] c = "2" -> 50 [] c = "F" -> 70 [] c = "L" -> 76
      [] c = "a" -> 97 [] c = "f" -> 102 [] c = "h" -> 104 [] c = "k" -> 107
      [] c = "l" -> 108 [] c = "o" -> 111 [] c = "p" -> 112 [] c = "r" -> 114
      [] c = "s" -> 115

\* str.lower()
Lower(name) ==
    [i \in 1..Len(name) |-> CASE name[i] = "F" -> "f" [] name[i] = "L" -> "l"
                              [] OTHER -> name[i]]

\* sub in s
Contains(sub, s) ==
    \E i \in 1..(Len(s) - Len(sub) + 1) : SubSeq(s, i, i + Len(sub) - 1) = sub

RECURSIVE StrLess(_, _)
\* a < b for two str
StrLess(a, b) ==
    IF b = <<>> THEN FALSE
    ELSE IF a = <<>> THEN TRUE
    ELSE IF Head(a) # Head(b) THEN Ord(Head(a)) < Ord(Head(b))
    ELSE StrLess(Tail(a), Tail(b))

\* the list comprehension of find_latest_flash_model
FlashModels(models) ==
    LET keep(m) == "generateContent" \in m.supported_generation_methods
                   /\ Contains(<<"f", "l", "a", "s", "h">>, Lower(m.name))
        kept == SelectSeq(models, keep)
    IN [i \in 1..Len(kept) |-> kept[i].name]

RECURSIVE InsertDesc(_, _)
InsertDesc(x, sorted) ==
    IF sorted = <<>> THEN <<x>>
    ELSE IF StrLess(Head(sorted), x) THEN <<x>> \o sorted
    ELSE <<Head(sorted)>> \o InsertDesc(x, Tail(sorted))

RECURSIVE SortReverse(_)
\* list.sort(reverse=True) on a list of str
SortReverse(names) ==
    IF names = <<>> THEN <<>>
    ELSE InsertDesc(names[Len(names)], SortReverse(SubSeq(names, 1, Len(names) - 1)))

\* the function that takes the first name of the ascending sort
find_latest_flash_model_ascending(listing) ==
    IF listing.raises THEN [exc |-> "", ret |-> Str(FALLBACK_MODEL)]
    ELSE LET flash_models == FlashModels(listing.models)
         IN IF flash_models = <<>> THEN [exc |-> "", ret |-> Str(FALLBACK_MODEL)]
            ELSE [exc |-> "", ret |-> SortReverse(flash_models)[Len(flash_models)]]

\* GeminiClient.find_latest_flash_model; listing is what list(genai.list_models())
\* does: it raises, or gives the models
find_latest_flash_model(listing) ==
    IF listing.raises THEN [exc |-> "", ret |-> Str(FALLBACK_MODEL)]
    ELSE LET flash_models == FlashModels(listing.models)
         IN IF flash_models = <<>> THEN [exc |-> "", ret |-> Str(FALLBACK_MODEL)]
            ELSE [exc |-> "", ret |-> SortReverse(flash_models)[1]]

ListedNames ==
    { <<"f", "l", "a", "s", "h">>, <<"f", "l", "a", "s", "h", "-", "2">>,
      <<"F", "L", "a", "s", "h", "-", "2">>, <<"f", "l", "a", "s", "k">>, <<"p", "r", "o">> }

ListedMethods == { {"generateContent", "countTokens"}, {"embedContent"} }

ListedModels ==
    [name : ListedNames, supported_generation_methods : ListedMethods]

RECURSIVE SeqsUpTo(_, _)
\* the sequences over S of length at most n
SeqsUpTo(S, n) ==
    IF n = 0 THEN {<<>>}
    ELSE LET shorter == SeqsUpTo(S, n - 1)
         IN shorter \cup {Append(s, x) : s \in shorter, x \in S}

Listings ==
    {[raises |-> TRUE, models |-> <<>>]}
        \cup {[raises |-> FALSE, models |-> ms] : ms \in SeqsUpTo(ListedModels, MaxListed)}

InitModels ==
    /\ file = AbsentFile
    /\ clock = 0
    /\ calls = <<>>
    /\ gc = NewClient
    /\ wire = <<>>
    /\ gcalls = <<>>
    /\ NoApp

CallFindLatestFlashModel ==
    /\ gcalls = <<>>
    /\ \E listing \in Listings :
         gcalls' = <<[op |-> "find_latest_flash_model", listing |-> listing,
                      res |-> find_latest_flash_model(listing)]>>
    /\ UNCHANGED <<storeVars, gc, wire, appVars>>

NextModels == CallFindLatestFlashModel

SpecModels == InitModels /\ [][NextModels]_vars

\* the names the claim is about: of the listed models that support content
\* generation and have "flash" in their name, whatever the case
Eligible(listing) ==
    {listing.models[i].name : i \in
        {j \in 1..Len(listing.models) :
            /\ "generateContent" \in listing.models[j].supported_generation_methods
            /\ Contains(<<"f", "l", "a", "s", "h">>, Lower(listing.models[j].name))}}

----------------------------------------------------------------------------
(* The UI Shell: helpers *)

MaxWorkers == 2

MaxEvents == 3

Min(a, b) == IF a < b THEN a ELSE b

\* s[:n]
Take(seq, n) == SubSeq(seq, 1, Min(n, Len(seq)))

RECURSIVE LStrip(_)
LStrip(text) ==
    IF text # <<>> /\ Head(text) = " " THEN LStrip(Tail(text)) ELSE text

RECURSIVE RStrip(_)
RStrip(text) ==
    IF text # <<>> /\ text[Len(text)] = " "
    THEN RStrip(SubSeq(text, 1, Len(text) - 1)) ELSE text

\* str.strip()
Strip(text) == RStrip(LStrip(text))

\* the files Image.open can open; every other path raises in Image.open
ValidImages == {"a.png"}

RECURSIVE OpenImages(_)
\* the images of the paths that open, in the order of the paths
OpenImages(paths) ==
    IF paths = <<>> THEN <<>>
    ELSE IF Head(paths) \in ValidImages THEN <<Head(paths)>> \o OpenImages(Tail(paths))
    ELSE OpenImages(Tail(paths))

\* position of a key in string order: timestamps by time, "null" after them
KeyRank(k) == IF k = "null" THEN 10 ELSE CHOOSE n \in 0..9 : IsoFormat(n) = k

RECURSIVE SortedDesc(_)
\* sorted(keys, reverse=True)
SortedDesc(keys) ==
    IF keys = {} THEN <<>>
    ELSE LET top == CHOOSE x \in keys : \A y \in keys : KeyRank(y) <= KeyRank(x)
         IN <<top>> \o SortedDesc(keys \ {top})

RECURSIVE Title(_)
\* the title _save_msg derives from the log: first model text, cut at 30
Title(log) ==
    IF log = <<>> THEN Str("Chat")
    ELSE IF Head(log).role = "model" THEN Take(Head(log).text, 30) \o <<"...">>
    ELSE Title(Tail(log))

Line(tag, text) == [tag |-> tag, text |-> text \o <<"\n\n">>]

\* App.append_text
append_text(display, tag, text) == Append(display, Line(tag, text))

Msg(type, tag, text, from) == [type |-> type, tag |-> tag, text |-> text, from |-> from]

\* the rows load_history_ui inserts for the document f holds
Rows(f) ==
    LET data == HM_load(f).val
        keys == SortedDesc(DOMAIN data)
    IN [i \in 1..Len(keys) |-> [key |-> keys[i], title |-> data[keys[i]].title]]

\* the selection load_history_ui leaves
KeptSel(sel, rows) == IF sel # <<>> /\ sel[1] < Len(rows) THEN sel ELSE <<>>

\* a refresh that leaves the list as it is
load_history_ui_keeps(f) == UNCHANGED <<hist_list, hist_sel>>

\* App.load_history_ui
load_history_ui(f) ==
    /\ hist_list' = Rows(f)
    /\ hist_sel' = KeptSel(hist_sel, Rows(f))

\* root.after(0, self.load_history_ui) at the end of _save_msg(role, text)
\* under chat_id.  Every change of the file is followed by a load_history_ui
\* call, at once (delete, clear) or scheduled (save), so with no call
\* outstanding the list shows the file and a further call changes nothing:
\* the calls outstanding run as one, and each is kept as the save that
\* scheduled it.
Schedule(pending, chat_id, role) == pending \cup {[key |-> DumpKey(chat_id), role |-> role]}

\* App.set_controls
set_controls(state) ==
    /\ btn_send' = (IF state THEN "normal" ELSE "disabled")
    /\ btn_start' = (IF state THEN "normal" ELSE "disabled")

\* a worker thread.  The thread holds its arguments (text, images) and the
\* locals of the calls it is in; conv is not held by the thread: it records
\* which conversation was current when the thread was started.
Worker(kind, text, images, conv) ==
    [kind |-> kind, pc |-> "start", text |-> text, images |-> images, conv |-> conv, sid |-> 0,
     chat_id |-> None, title |-> <<>>, paths |-> <<>>, log |-> <<>>, alias |-> FALSE,
     stamp |-> 0, loaded |-> Raised("")]

\* a thread that has ended: nothing of its frame is left
Ended(me) == [Worker(me.kind, <<>>, <<>>, None) EXCEPT !.pc = "done"]

\* list.append on the list object self.chat_log_data names: a worker whose
\* pending entry holds the same list object sees the append too
AppendShared(ws, m) ==
    [w \in DOMAIN ws |-> IF ws[w].alias THEN [ws[w] EXCEPT !.log = Append(@, m)] ELSE ws[w]]

\* self.chat_log_data = <a new list>: pending entries keep the old object
Unshare(ws) == [w \in DOMAIN ws |-> [ws[w] EXCEPT !.alias = FALSE]]

----------------------------------------------------------------------------
(* The UI Shell: construction *)

\* a record of an earlier run; the file b.png is gone since
StoredEntry == Entry(<<"r", "...">>, <<"a.png", "b.png">>, <<ModelMsg, UserMsg>>, 0)

AppFiles ==
    { AbsentFile,
      [exists |-> TRUE, readable |-> TRUE, kind |-> "garbage", doc |-> EmptyDict],
      ObjectFile([k \in {IsoFormat(0)} |-> StoredEntry]) }

\* the client thread of an App that starts it without looking at the key
ClientThread_always(key) == "running"

\* if self.api_key: threading.Thread(target=self.init_client_bg).start()
ClientThread(key) == IF key THEN "running" ELSE "none"

\* after App.__init__: setup_ui has listed the history, the first poll found
\* the queue empty, the client thread is started when there is a key
InitApp ==
    /\ file \in AppFiles
    /\ clock = 1
    /\ calls = <<>>
    /\ gc = NewClient
    /\ wire = <<>>
    /\ gcalls = <<>>
    /\ api_key \in BOOLEAN
    /\ client_ready = FALSE
    /\ init_pc = ClientThread(api_key)
    /\ msg_queue = <<>>
    /\ current_chat_id = None
    /\ current_image_paths = <<>>
    /\ pil_images = <<>>
    /\ chat_log_data = <<>>
    /\ btn_send = "normal"
    /\ btn_start = "disabled"
    /\ status_bar = "Initializing..."
    /\ chat_display = (IF api_key THEN <<>>
                       ELSE <<Line("system", Str("Critical: No API Key found in environment."))>>)
    /\ hist_list = Rows(file)
    /\ hist_sel = <<>>
    /\ after_refresh = {}
    /\ workers = <<>>
    /\ polls = 1
    /\ removed = {}
    /\ events = 0

\* App.init_client_bg: GeminiClient(api_key) succeeds or raises
InitClientBg ==
    /\ init_pc = "running"
    /\ init_pc' = "done"
    /\ \E ok \in BOOLEAN :
         IF ok
         THEN /\ client_ready' = TRUE
              /\ gc' = NewClient
              /\ msg_queue' = Append(msg_queue,
                    Msg("status", "", Str("Ready (Model: " \o FALLBACK_MODEL \o ")"), 0))
         ELSE /\ msg_queue' = Append(msg_queue, Msg("error", "", <<"Startup Error: ", "e">>, 0))
              /\ UNCHANGED <<client_ready, gc>>
    /\ UNCHANGED <<events, storeVars, wire, gcalls, api_key, polls, removed, current_chat_id,
                   current_image_paths, pil_images, chat_log_data, widgetVars,
                   after_refresh, workers>>

----------------------------------------------------------------------------
(* The UI Shell: callbacks of the UI thread.  A callback runs to its end    *)
(* before the next one starts; worker threads run between them.  The file   *)
(* list, the thumbnails and the preview frame are widgets no callback       *)
(* reads back and are left out.  The file always loads as a mapping here:   *)
(* App.__init__ lists the history and would not return otherwise, and the   *)
(* App writes JSON objects only.                                            *)

\* the user makes one more input
UserInput == events < MaxEvents /\ events' = events + 1

\* a check_queue whose call ends without a next one scheduled
NextPoll_stops(running) == running - 1

\* finally: self.root.after(100, self.check_queue): the call that runs ends
\* and the next one is scheduled, however the try block was left
NextPoll(running) == running - 1 + 1

\* App.check_queue, one turn of its loop: the oldest message is handled.
\* A poll handles every message it finds and ends on queue.Empty after
\* scheduling the next poll; a message a worker has put is handled by the
\* running poll or by a later one, as the put falls, so the turns of all
\* polls are the steps of this one action.
check_queue ==
    /\ polls > 0
    /\ polls' = NextPoll(polls)
    /\ msg_queue # <<>>
    /\ msg_queue' = Tail(msg_queue)
    /\ LET m == Head(msg_queue)
       IN CASE m.type = "ui_append" ->
                 /\ chat_display' = append_text(chat_display, m.tag, m.text)
                 /\ UNCHANGED <<btn_send, btn_start, status_bar>>
            [] m.type = "status" ->
                 /\ status_bar' = m.text[1]
                 /\ UNCHANGED <<btn_send, btn_start, chat_display>>
            [] m.type = "enable_controls" ->
                 /\ set_controls(TRUE)
                 /\ UNCHANGED <<status_bar, chat_display>>
            [] m.type = "error" ->
                 /\ chat_display' = append_text(chat_display, "error", <<"Error: ">> \o m.text)
                 /\ set_controls(TRUE)
                 /\ status_bar' = "Error occurred"
    /\ UNCHANGED <<events, storeVars, clientVars, api_key, removed, client_ready, init_pc,
                   current_chat_id, current_image_paths, pil_images, chat_log_data,
                   hist_list, hist_sel, after_refresh, workers>>

DialogChoices == {<<>>, <<"a.png">>}

\* App.select_images: the paths the file dialog returned
select_images ==
    /\ UserInput
    /\ \E paths \in DialogChoices :
         /\ paths # <<>>
         /\ current_image_paths' = paths
         /\ pil_images' = OpenImages(paths)
         /\ btn_start' = "normal"
    /\ UNCHANGED <<storeVars, clientVars, api_key, polls, removed, client_ready, init_pc, msg_queue,
                   current_chat_id, chat_log_data, btn_send, status_bar, chat_display,
                   hist_list, hist_sel, after_refresh, workers>>

\* App.start_analysis_thread, run by a click on the enabled Analyze button
start_analysis_thread ==
    /\ UserInput
    /\ btn_start = "normal"
    /\ pil_images # <<>>
    /\ Len(workers) < MaxWorkers
    /\ set_controls(FALSE)
    /\ chat_display' = <<>>
    /\ chat_log_data' = <<>>
    /\ current_chat_id' = IsoFormat(clock)
    /\ clock' = clock + 1
    /\ status_bar' = "Analyzing images..."
    /\ msg_queue' = Append(msg_queue,
          Msg("ui_append", "system",
              <<"Uploading ", ToString(Len(pil_images)), " images...">>, Len(workers) + 1))
    /\ workers' = Append(Unshare(workers), Worker("analyze", <<>>, <<>>, IsoFormat(clock)))
    /\ UNCHANGED <<file, calls, clientVars, api_key, polls, removed, client_ready, init_pc,
                   current_image_paths, pil_images, hist_list, hist_sel, after_refresh>>

EntryTexts == {<<" ">>, <<" ", "q">>}

\* App.send_message_thread with msg the stripped text of the entry field
send_message_thread(msg) ==
    /\ msg # <<>>
    /\ Len(workers) < MaxWorkers
    /\ LET m == [role |-> "user", text |-> msg]
           log == Append(chat_log_data, m)
           out == HM_save(file, current_chat_id, Title(log), current_image_paths, log, clock)
       IN /\ chat_display' = append_text(chat_display, "user", <<"You: ">> \o msg)
          /\ chat_log_data' = log
          /\ file' = out.file
          /\ IF out.exc = ""
             THEN /\ after_refresh' = Schedule(after_refresh, current_chat_id, "user")
                  /\ set_controls(FALSE)
                  /\ status_bar' = "Thinking..."
                  /\ workers' = Append(AppendShared(workers, m),
                                       Worker("send", msg, <<>>, current_chat_id))
             ELSE /\ workers' = AppendShared(workers, m)
                  /\ UNCHANGED <<after_refresh, btn_send, btn_start, status_bar>>
    /\ UNCHANGED <<clock, calls, clientVars, api_key, polls, removed, client_ready, init_pc,
                   msg_queue,
                   current_chat_id, current_image_paths, pil_images, hist_list, hist_sel>>

\* a click on the enabled Send button
SendButton ==
    /\ UserInput
    /\ btn_send = "normal"
    /\ \E text \in EntryTexts : send_message_thread(Strip(text))

\* the Return key in the entry field (the binding does not look at the button)
ReturnKey ==
    /\ UserInput
    /\ \E text \in EntryTexts : send_message_thread(Strip(text))

\* the Refresh List button
RefreshButton ==
    /\ UserInput
    /\ load_history_ui(file)
    /\ UNCHANGED <<storeVars, clientVars, api_key, polls, removed, client_ready, init_pc, msg_queue,
                   current_chat_id, current_image_paths, pil_images, chat_log_data,
                   btn_send, btn_start, status_bar, chat_display, after_refresh, workers>>

\* a load_history_ui call that _save_msg scheduled with root.after(0, ...)
AfterRefresh ==
    /\ after_refresh # {}
    /\ after_refresh' = {}
    /\ load_history_ui(file)
    /\ UNCHANGED <<events, storeVars, clientVars, api_key, polls, removed, client_ready, init_pc,
                   msg_queue,
                   current_chat_id, current_image_paths, pil_images, chat_log_data,
                   btn_send, btn_start, status_bar, chat_display, workers>>

\* App.delete_selected_history
delete_selected_history ==
    /\ UserInput
    /\ hist_sel # <<>>
    /\ LET keys == SortedDesc(DOMAIN HM_load(file).val)
       IN /\ hist_sel[1] < Len(keys)
          /\ LET chat_id == keys[hist_sel[1] + 1]
                 out == HM_delete_entry(file, chat_id)
             IN /\ file' = out.file
                /\ removed' = removed \cup {chat_id}
                /\ load_history_ui(out.file)
                /\ IF current_chat_id = chat_id
                   THEN chat_display' = <<>> /\ status_bar' = "Deleted"
                   ELSE UNCHANGED <<chat_display, status_bar>>
    /\ UNCHANGED <<clock, calls, clientVars, api_key, polls, client_ready, init_pc, msg_queue,
                   current_chat_id, current_image_paths, pil_images, chat_log_data,
                   btn_send, btn_start, after_refresh, workers>>

\* App.clear_all_history, the confirmation answered with yes
clear_all_history ==
    /\ UserInput
    /\ LET out == HM_clear_all(file)
       IN /\ file' = out.file
          /\ removed' = removed \cup (DOMAIN HM_load(file).val \ DOMAIN HM_load(out.file).val)
          /\ load_history_ui(out.file)
    /\ chat_display' = <<>>
    /\ UNCHANGED <<clock, calls, clientVars, api_key, polls, client_ready, init_pc, msg_queue,
                   current_chat_id, current_image_paths, pil_images, chat_log_data,
                   btn_send, btn_start, status_bar, after_refresh, workers>>

RECURSIVE ShownMessages(_)
\* the lines load_history_item inserts for the messages of a record
ShownMessages(messages) ==
    IF messages = <<>> THEN <<>>
    ELSE LET msg == Head(messages)
             tag == IF msg.role = "user" THEN "user" ELSE "model"
             prefix == IF tag = "user" THEN <<"You: ">> ELSE <<>>
         IN <<Line(tag, prefix \o msg.text)>> \o ShownMessages(Tail(messages))

\* App.load_history_item, run when the user selects row of the history list
load_history_item ==
    /\ UserInput
    /\ \E row \in 0..(Len(hist_list) - 1) :
         LET data == HM_load(file).val
             keys == SortedDesc(DOMAIN data)
         IN /\ hist_sel' = <<row>>
            /\ IF row >= Len(keys)
               THEN UNCHANGED <<clientVars, current_chat_id, current_image_paths, pil_images,
                                chat_log_data, status_bar, chat_display, workers>>
               ELSE LET chat_data == data[keys[row + 1]]
                        valid_images == OpenImages(chat_data.images)
                    IN /\ chat_display' = ShownMessages(chat_data.messages)
                       /\ chat_log_data' = chat_data.messages
                       /\ current_chat_id' = keys[row + 1]
                       /\ current_image_paths' = chat_data.images
                       /\ pil_images' = valid_images
                       /\ status_bar' = "History Loaded"
                       /\ IF client_ready
                          THEN /\ Len(workers) < MaxWorkers
                               /\ workers' = Append(Unshare(workers),
                                        Worker("resume", <<>>, valid_images, keys[row + 1]))
                          ELSE workers' = Unshare(workers)
                       /\ UNCHANGED clientVars
    /\ UNCHANGED <<storeVars, api_key, polls, removed, client_ready, init_pc, msg_queue,
                   btn_send, btn_start, hist_list, after_refresh>>

----------------------------------------------------------------------------
(* The UI Shell: worker threads.  A worker blocks in its model call         *)
(* (pc "in_call") and, after a reply, in HistoryManager.save between the    *)
(* load and the rewrite of the file (pc "loaded").                          *)

\* the except clause that also posts enable_controls
PutError_and_enable(w, text) ==
    msg_queue' = msg_queue \o <<Msg("error", "", text, w), Msg("enable_controls", "", <<>>, w)>>

\* except Exception as e: self.msg_queue.put(("error", str(e)))
PutError(w, text) == msg_queue' = Append(msg_queue, Msg("error", "", text, w))

\* the thread starts: _bg_start_analysis, _bg_send_message or
\* client.resume_session up to the request of its model call
WorkerBegin(w) ==
    /\ workers[w].pc = "start"
    /\ LET me == workers[w]
       IN CASE me.kind = "analyze" ->
                 IF ~client_ready
                 THEN /\ PutError(w, Str("Client not ready"))
                      /\ workers' = [workers EXCEPT ![w] = Ended(@)]
                      /\ UNCHANGED <<gc, wire>>
                 ELSE LET g1 == start_chat(gc)
                          content == <<"Analyze these images.">> \o pil_images
                      IN /\ gc' = g1
                         /\ wire' = Append(wire, Request(g1, g1.chat, content))
                         /\ workers' = [workers EXCEPT ![w].pc = "in_call", ![w].sid = g1.chat,
                                                       ![w].images = pil_images,
                                                       ![w].text = content]
                         /\ UNCHANGED msg_queue
            [] me.kind = "send" ->
                 IF ~client_ready
                 THEN /\ PutError(w, Str("'NoneType' object has no attribute 'send_message'"))
                      /\ workers' = [workers EXCEPT ![w] = Ended(@)]
                      /\ UNCHANGED <<gc, wire>>
                 ELSE IF gc.chat = 0
                 THEN /\ PutError(w, Str("Chat session not initialized."))
                      /\ workers' = [workers EXCEPT ![w] = Ended(@)]
                      /\ UNCHANGED <<gc, wire>>
                 ELSE /\ wire' = Append(wire, Request(gc, gc.chat, me.text))
                      /\ workers' = [workers EXCEPT ![w].pc = "in_call", ![w].sid = gc.chat]
                      /\ UNCHANGED <<gc, msg_queue>>
            [] me.kind = "resume" ->
                 LET g1 == start_chat(gc)
                     content == <<"System: Context restoration.">> \o me.images
                 IN /\ gc' = g1
                    /\ IF me.images # <<>>
                       THEN /\ wire' = Append(wire, Request(g1, g1.chat, content))
                            /\ workers' = [workers EXCEPT ![w].pc = "in_call",
                                                          ![w].sid = g1.chat, ![w].text = content]
                       ELSE /\ workers' = [workers EXCEPT ![w] = Ended(@)]
                            /\ UNCHANGED wire
                    /\ UNCHANGED msg_queue
    /\ UNCHANGED <<events, storeVars, gcalls, api_key, polls, removed, client_ready, init_pc,
                   current_chat_id,
                   current_image_paths, pil_images, chat_log_data, widgetVars, after_refresh>>

\* the model call returns its reply: the worker posts the reply and enters
\* _save_msg, which appends to the log and calls HistoryManager.save, here
\* up to its load
WorkerCallReturns(w) ==
    /\ workers[w].pc = "in_call"
    /\ LET me == workers[w]
           loaded == HM_load(file)
           log == Append(chat_log_data, [role |-> "model", text |-> ReplyText])
       IN /\ gc' = ChatReply(gc, me.sid, me.text, ReplyText)
          /\ IF me.kind = "resume"
             THEN /\ workers' = [workers EXCEPT ![w] = Ended(@)]
                  /\ UNCHANGED <<msg_queue, chat_log_data>>
             ELSE /\ chat_log_data' = log
                  /\ IF loaded.exc = ""
                     THEN /\ msg_queue' = Append(msg_queue, Msg("ui_append", "model", ReplyText, w))
                          /\ workers' =
                                [AppendShared(workers, [role |-> "model", text |-> ReplyText])
                                    EXCEPT ![w].pc = "loaded", ![w].chat_id = current_chat_id,
                                           ![w].title = Title(log),
                                           ![w].paths = current_image_paths,
                                           ![w].log = log, ![w].alias = TRUE,
                                           ![w].stamp = clock, ![w].loaded = loaded]
                     ELSE /\ msg_queue' = msg_queue
                                \o <<Msg("ui_append", "model", ReplyText, w),
                                     Msg("error", "", Str(loaded.exc), w)>>
                          /\ workers' =
                                [AppendShared(workers, [role |-> "model", text |-> ReplyText])
                                    EXCEPT ![w] = Ended(@)]
    /\ UNCHANGED <<events, storeVars, wire, gcalls, api_key, polls, removed, client_ready, init_pc,
                   current_chat_id, current_image_paths, pil_images, widgetVars, after_refresh>>

\* the model call raises: _bg_start_analysis and _bg_send_message post the
\* error; nothing catches it in the thread of resume_session
WorkerCallRaises(w) ==
    /\ workers[w].pc = "in_call"
    /\ workers' = [workers EXCEPT ![w] = Ended(@)]
    /\ IF workers[w].kind = "resume"
       THEN UNCHANGED msg_queue
       ELSE PutError(w, Str("APIError"))
    /\ UNCHANGED <<events, storeVars, clientVars, api_key, polls, removed, client_ready, init_pc,
                   current_chat_id, current_image_paths, pil_images, chat_log_data,
                   widgetVars, after_refresh>>

\* the document of a save that holds a lock from its load to its write: no
\* other thread has changed the file since
Held_locked(me, f) == HM_load(f)

\* data = HistoryManager.load(): the document the worker's save has held
\* since its load, whatever other threads have written to the file since
Held(me, f) == me.loaded

\* HistoryManager.save from data[chat_id] = entry on, then the rest of
\* _save_msg and of the thread: the refresh is scheduled, the status and
\* enable_controls are posted
WorkerWrite(w) ==
    /\ workers[w].pc = "loaded"
    /\ LET me == workers[w]
           out == HM_save_write(file, Held(me, file), me.chat_id,
                                Entry(me.title, me.paths, me.log, me.stamp))
       IN /\ file' = out.file
          /\ workers' = [workers EXCEPT ![w] = Ended(@)]
          /\ IF out.exc = ""
             THEN /\ after_refresh' = Schedule(after_refresh, me.chat_id, "model")
                  /\ msg_queue' = msg_queue
                        \o <<Msg("status", "",
                                 Str(IF me.kind = "analyze" THEN "Chat Active" ELSE "Ready"), w),
                             Msg("enable_controls", "", <<>>, w)>>
             ELSE /\ PutError(w, Str(out.exc))
                  /\ UNCHANGED after_refresh
    /\ UNCHANGED <<events, clock, calls, clientVars, api_key, polls, removed, client_ready, init_pc,
                   current_chat_id, current_image_paths, pil_images, chat_log_data, widgetVars>>

NextApp ==
    \/ InitClientBg
    \/ check_queue
    \/ select_images
    \/ start_analysis_thread
    \/ SendButton
    \/ ReturnKey
    \/ RefreshButton
    \/ AfterRefresh
    \/ delete_selected_history
    \/ clear_all_history
    \/ load_history_item
    \/ \E w \in DOMAIN workers : WorkerBegin(w)
    \/ \E w \in DOMAIN workers : WorkerCallReturns(w)
    \/ \E w \in DOMAIN workers : WorkerCallRaises(w)
    \/ \E w \in DOMAIN workers : WorkerWrite(w)

SpecApp == InitApp /\ [][NextApp]_vars

\* The App while its window is open: Tk's main loop runs the check_queue
\* call that root.after(100, ...) has scheduled once its 100 ms are over, so
\* a scheduled poll that has a message to handle does run.
SpecAppPolled == SpecApp /\ WF_vars(check_queue)

----------------------------------------------------------------------------
(* Properties of the UI Shell *)

\* the worker threads that are inside an outbound model call
InCall == {w \in DOMAIN workers : workers[w].pc = "in_call"}

\* C6 (as claimed): at any moment at most one worker thread is executing an
\* outbound model call.
C6_AtMostOneCallInFlight == Cardinality(InCall) <= 1

\* worker w is an Analyze or Send worker
Turn(w) == workers[w].kind \in {"analyze", "send"}

\* the messages of worker w that end its turn and are still in the queue
Closing(w, queue) ==
    {i \in 1..Len(queue) : queue[i].from = w /\ queue[i].type \in {"enable_controls", "error"}}

\* worker w has been dispatched and the message that ends its turn has not
\* been handled by check_queue yet
TurnOpen(w) == Turn(w) /\ (workers[w].pc # "done" \/ Closing(w, msg_queue) # {})

\* C7 (as claimed): from the dispatch of an Analyze or Send worker until
\* check_queue has handled the enable_controls or error message of that
\* worker, the Send button and the Analyze button are both disabled.
C7_DisabledWhileInFlight ==
    \A w \in DOMAIN workers :
        TurnOpen(w) => (btn_send = "disabled" /\ btn_start = "disabled")

\* the messages worker w has in the queue
Posted(w, queue) == SelectSeq(queue, LAMBDA m : m.from = w)

\* this step is the end of worker w's turn by an exception
Fails(w) ==
    /\ Turn(w)
    /\ workers[w].pc \in {"start", "in_call"}
    /\ workers'[w].pc = "done"

\* this step is check_queue handling an error message
HandlesError ==
    /\ msg_queue # <<>>
    /\ msg_queue' = Tail(msg_queue)
    /\ Head(msg_queue).type = "error"

\* C8: a worker whose call raises posts exactly one error message and no
\* enable_controls, and posts nothing afterwards; the log and the file are
\* as they were (nothing is rolled back).  check_queue handling the error
\* appends the error-tagged line, sets the status to the error state and
\* enables both buttons, and leaves the log and the file alone.
C8_ErrorPath ==
    [][ /\ \A w \in DOMAIN workers :
             /\ Fails(w) =>
                  /\ Len(msg_queue') = Len(msg_queue) + 1
                  /\ SubSeq(msg_queue', 1, Len(msg_queue)) = msg_queue
                  /\ msg_queue'[Len(msg_queue')].type = "error"
                  /\ msg_queue'[Len(msg_queue')].from = w
                  /\ chat_log_data' = chat_log_data
                  /\ file' = file
             /\ workers[w].pc = "done" =>
                  Len(Posted(w, msg_queue')) <= Len(Posted(w, msg_queue))
        /\ HandlesError =>
             /\ chat_display' = Append(chat_display,
                   [tag |-> "error", text |-> <<"Error: ">> \o Head(msg_queue).text \o <<"\n\n">>])
             /\ status_bar' = "Error occurred"
             /\ btn_send' = "normal"
             /\ btn_start' = "normal"
             /\ chat_log_data' = chat_log_data
             /\ file' = file
      ]_vars

\* a Send whose model call raised, after check_queue has handled its error:
\* the user message is still the last of the log and of the stored record
C8_Witness ==
    /\ Len(workers) = 2
    /\ workers[2].kind = "send" /\ workers[2].pc = "done"
    /\ msg_queue = <<>>
    /\ chat_display # <<>>
    /\ chat_display[Len(chat_display)] = Line("error", <<"Error: ", "APIError">>)
    /\ status_bar = "Error occurred"
    /\ btn_send = "normal" /\ btn_start = "normal"
    /\ chat_log_data # <<>>
    /\ chat_log_data[Len(chat_log_data)] = [role |-> "user", text |-> Str("q")]
    /\ current_chat_id \in DOMAIN HM_load(file).val
    /\ HM_load(file).val[current_chat_id].messages = chat_log_data

\* the document a load of the file gives
Document(f) == HM_load(f).val

\* this step is worker w's HistoryManager.save rewriting the file
WorkerSaves(w) ==
    /\ w \in DOMAIN workers
    /\ workers[w].pc = "loaded"
    /\ workers'[w].pc = "done"

\* this step is send_message_thread saving the user's message
SendSaves ==
    /\ events' = events + 1
    /\ Len(chat_log_data') = Len(chat_log_data) + 1
    /\ chat_log_data'[Len(chat_log_data')].role = "user"

\* this step is Delete Selected or Clear All
Removes ==
    /\ events' = events + 1
    /\ chat_log_data' = chat_log_data
    /\ workers' = workers

\* C12 (as claimed): a record appears in the document only by the save of an
\* Analyze worker, under the identifier of that analysis; a record that
\* stays changes only by a save of a message exchange under its own
\* identifier; a record disappears only by Delete Selected or Clear All.
C12_RecordLifecycle ==
    [][ LET old == Document(file)
            new == Document(file')
        IN /\ \A k \in DOMAIN new \ DOMAIN old :
                \E w \in DOMAIN workers :
                    /\ WorkerSaves(w)
                    /\ workers[w].kind = "analyze"
                    /\ workers[w].chat_id = k
           /\ \A k \in DOMAIN new \cap DOMAIN old :
                new[k] # old[k] =>
                    \/ SendSaves /\ DumpKey(current_chat_id) = k
                    \/ \E w \in DOMAIN workers :
                          WorkerSaves(w) /\ DumpKey(workers[w].chat_id) = k
           /\ \A k \in DOMAIN old \ DOMAIN new : Removes
      ]_vars

\* the identifiers start_analysis_thread has generated so far, in this run
\* or in the run that left the stored record
AnalyzeIds == {IsoFormat(n) : n \in 0..(clock - 1)}

\* C13 (as claimed): every key of the history document is a timestamp
\* identifier that an Analyze action generated; no record is stored under
\* the absent identifier (None, written as "null").
C13_KeysAreAnalyzeIds == \A k \in DOMAIN Document(file) : k \in AnalyzeIds

\* the line App.__init__ logs when it finds no key
NoKeyWarning == Line("system", Str("Critical: No API Key found in environment."))

\* this step is worker w's thread running up to its model call or its end
Begins(w) == workers[w].pc = "start" /\ workers'[w].pc # "start"

\* C14: with no key in the environment the warning is shown at startup, the
\* client is never constructed and no model call is made whatever the user
\* does; every Analyze or Send worker ends at once by posting one error
\* message, and check_queue handling it shows the error and enables both
\* buttons.
C14_NoKeyNoCalls ==
    [][ ~api_key =>
          /\ events = 0 => chat_display = <<NoKeyWarning>>
          /\ init_pc' = "none" /\ ~client_ready'
          /\ gc' = NewClient /\ wire' = <<>>
          /\ \A w \in DOMAIN workers' : Turn(w)' /\ workers'[w].pc # "in_call"
          /\ \A w \in DOMAIN workers :
                Begins(w) =>
                    /\ workers'[w].pc = "done"
                    /\ msg_queue' = Append(msg_queue, msg_queue'[Len(msg_queue')])
                    /\ msg_queue'[Len(msg_queue')].type = "error"
                    /\ msg_queue'[Len(msg_queue')].from = w
          /\ HandlesError =>
                /\ chat_display' = Append(chat_display,
                      Line("error", <<"Error: ">> \o Head(msg_queue).text))
                /\ btn_send' = "normal"
                /\ btn_start' = "normal"
      ]_vars

\* no key: an Analyze was attempted, its worker has ended and check_queue
\* has shown its error and enabled the buttons
C14_Witness ==
    /\ ~api_key
    /\ Len(workers) = 1
    /\ workers[1].kind = "analyze" /\ workers[1].pc = "done"
    /\ msg_queue = <<>>
    /\ chat_display # <<>>
    /\ chat_display[Len(chat_display)] = Line("error", <<"Error: ", "Client not ready">>)
    /\ btn_send = "normal" /\ btn_start = "normal"
    /\ wire = <<>>

\* the reply every model call of the App returns
Reply == [role |-> "model", text |-> ReplyText]

\* the enable_controls messages worker w has in the queue
Enables(w, queue) == {i \in 1..Len(queue) : queue[i].from = w /\ queue[i].type = "enable_controls"}

\* this step is the scheduled load_history_ui calls running
Refreshes == after_refresh # {} /\ after_refresh' = {}

\* the identifiers the history list shows
Listed(rows) == {rows[i].key : i \in 1..Len(rows)}

\* in this step: a worker that receives its reply appends it to the log; the
\* worker's save writes the log with that reply under its identifier,
\* schedules the refresh and only then posts enable_controls
SavesBeforeSignals ==
    \A w \in DOMAIN workers :
        /\ (Turn(w) /\ workers[w].pc = "in_call" /\ workers'[w].pc # "in_call"
                /\ Closing(w, msg_queue') = {})
              => /\ chat_log_data' = Append(chat_log_data, Reply)
                 /\ workers'[w].log = chat_log_data'
        /\ WorkerSaves(w) =>
              LET key == DumpKey(workers[w].chat_id)
              IN /\ key \in DOMAIN Document(file')
                 /\ Document(file')[key].messages = workers[w].log
                 /\ Reply \in Range(workers[w].log)
                 /\ [key |-> key, role |-> "model"] \in after_refresh'
                 /\ Enables(w, msg_queue) = {}
                 /\ Enables(w, msg_queue') # {}
        /\ (Enables(w, msg_queue') # {} /\ Enables(w, msg_queue) = {}) => WorkerSaves(w)

\* in this step: when the scheduled refresh runs, the list shows the record
\* of every model reply whose save scheduled it
RefreshShowsSaved ==
    Refreshes => \A p \in after_refresh : p.role = "model" => p.key \in Listed(hist_list')

\* in this step: when the scheduled refresh runs, the list shows the records
\* the file holds at that moment
RefreshShowsFile ==
    Refreshes =>
        /\ Listed(hist_list') = DOMAIN Document(file)
        /\ Len(hist_list') = Cardinality(DOMAIN Document(file))

\* C15 (as claimed): every model reply is appended to the log and saved
\* before the refresh it schedules runs and before enable_controls is
\* posted, and the list shown after that refresh contains the saved record.
C15_SavedThenListed == [][SavesBeforeSignals /\ RefreshShowsSaved]_vars

\* C15 (amended): every model reply is appended to the log and saved before
\* the refresh it schedules runs and before enable_controls is posted; the
\* list shown after that refresh has one row for each record the file holds
\* when the refresh runs, so it contains the saved record unless the record
\* was removed from the file in between.
C15_SavedThenRefreshed == [][SavesBeforeSignals /\ RefreshShowsFile]_vars

\* a worker's save has been followed by Clear All before its refresh ran:
\* the refresh has run and the list is empty, as the file is
C15_Witness ==
    /\ \E w \in DOMAIN workers : Turn(w) /\ workers[w].pc = "done" /\ Enables(w, msg_queue) # {}
    /\ after_refresh = {}
    /\ hist_list = <<>>
    /\ file.exists /\ DOMAIN Document(file) = {}

Senders == 0..MaxWorkers

MsgTypes == {"ui_append", "status", "enable_controls", "error"}

\* a message of this sender and type is waiting in the queue
Waiting(from, type) ==
    \E i \in 1..Len(msg_queue) : msg_queue[i].from = from /\ msg_queue[i].type = type

\* in this step the queue keeps the order of the puts: messages are added at
\* its end, and only its oldest message is taken
FifoStep ==
    \/ /\ Len(msg_queue') >= Len(msg_queue)
       /\ SubSeq(msg_queue', 1, Len(msg_queue)) = msg_queue
    \/ /\ msg_queue # <<>>
       /\ msg_queue' = Tail(msg_queue)

C18_ReplyInOwnConversation ==
    [][ \A w \in DOMAIN workers :
            WorkerSaves(w) => DumpKey(workers[w].chat_id) = DumpKey(workers[w].conv)
      ]_vars

\* C19 (as claimed): an identifier that Delete Selected or Clear All has
\* removed stays absent from the history document.
C19_DeletedStaysAbsent == \A k \in removed : k \notin DOMAIN Document(file)

\* the identifier the history list shows at a row (rows from 0)
Shown(row) == hist_list[row + 1].key

\* C20 (as claimed): a selection in the history list loads the conversation
\* whose identifier the list shows at the selected row, and Delete Selected
\* removes the record whose identifier the list shows at the selected row
\* (and no other).
C20_ActsOnShownRecord ==
    [][ /\ (load_history_item /\ hist_sel'[1] < Cardinality(DOMAIN Document(file)))
              => current_chat_id' = Shown(hist_sel'[1])
        /\ delete_selected_history
              => DOMAIN Document(file) \ DOMAIN Document(file') = {Shown(hist_sel[1])}
      ]_vars

====
